---- MODULE Spec2Model ----
(***************************************************************************)
(* A model of app.py, the OCR + translation upload service:                *)
(*   - safe_delete (retrying unlink of a temporary file),                  *)
(*   - translate_text (chunked translation that skips failed chunks),      *)
(*   - upload_file (the request pipeline with its finally-cleanup).        *)
(* Three specifications share the module: Spec (the requests of            *)
(* upload_file), SpecSD (safe_delete called on arbitrary paths) and        *)
(* SpecTT (translate_text applied to bounded texts).                       *)
(***************************************************************************)
EXTENDS Integers, Sequences, FiniteSets, TLC

VARIABLES
    fs,     \* the temp directory: per file name, does it exist, who locks it, its content
    sd,     \* per caller: the frame of its running safe_delete call
    deleted, \* history: names unlinked by safe_delete and not created again since
    tt,     \* the frame of a translate_text call: its text, chunks, loop index, result
    ex,     \* the frame of an extract_text_from_pdf / _image call
    pc,       \* per request: where upload_file stands
    request,  \* per request: the content type, the uploaded file, the target language
    locals,   \* per request: temp_input_path, output_path, filename and the two texts
    response, \* per request: what upload_file returns
    hist      \* per request, history: the temp files it created, the paths it cleaned

vars == <<fs, sd, deleted, tt, ex, pc, request, locals, response, hist>>

filevars == <<fs, sd, deleted>>

pipevars == <<pc, request, locals, response, hist>>

\* ------------------------------------------------------------------ values

\* Python's None, as passed for a path that was never assigned.
None == "<None>"

\* The names tempfile can hand out.
Names == {"/tmp/tmpA", "/tmp/tmpB", "/tmp/tmpC"}

\* What safe_delete may be called with: None, '', or a path.
Paths == {None, ""} \cup Names

\* The callers of safe_delete: one per request being served.
Requests == {"r1"}

\* `not filepath`: None and '' are falsy.
Falsy(filepath) == filepath = None \/ filepath = ""

\* `owner` is history: the request that created the file ("" for a file that was
\* there before any request).
NoFile == [exists |-> FALSE, lock |-> "none", content |-> <<>>, owner |-> ""]

\* request.files.get('file') when the form has no such part.
NoUpload == [present |-> FALSE, filename |-> <<>>]

NoRequest == [content_type |-> None, file |-> NoUpload, target_language |-> None]

\* Lines 97-98 and the locals assigned later, before their assignment.
NoLocals == [temp_input_path |-> None, output_path |-> None, filename |-> <<>>,
             extracted_text |-> <<-1>>, translated_text |-> <<-1>>]

\* No response yet. `exc` names the exception that left upload_file, if one did.
NoResponse == [status |-> 0, error |-> "", file |-> None, body |-> <<-1>>, exc |-> ""]

\* What OCR gave for the upload, before extraction: nothing yet.
NoDoc == [opens |-> FALSE, rasterized |-> FALSE, pages |-> <<>>]

NoHist == [created |-> {}, cleaned |-> {}, steps |-> <<>>, doc |-> NoDoc, outcomes |-> <<>>]

\* No request has arrived.
PipelineIdle ==
    /\ pc = [r \in Requests |-> "idle"]
    /\ request = [r \in Requests |-> NoRequest]
    /\ locals = [r \in Requests |-> NoLocals]
    /\ response = [r \in Requests |-> NoResponse]
    /\ hist = [r \in Requests |-> NoHist]

\* ------------------------------------------------------------ safe_delete

max_attempts == 3

\* os.path.exists(filepath)
PathExists(filepath) == filepath \in Names /\ fs[filepath].exists

\* A guard that forgets the existence test.
SDGuardNoExists(filepath) == Falsy(filepath)

\* Line 82: the guard under which safe_delete returns at once.
SDGuard(filepath) == Falsy(filepath) \/ ~PathExists(filepath)

\* os.unlink(filepath): what the operating system answers in the current state.
\* A file that is gone gives FileNotFoundError, a file held open under mandatory
\* locking gives PermissionError.
UnlinkResult(filepath) ==
    IF ~PathExists(filepath) THEN "FileNotFoundError"
    ELSE IF fs[filepath].lock # "none" THEN "PermissionError"
    ELSE "ok"

\* Line 90: the only exception class the retry loop catches.
Caught(e) == e = "PermissionError"

\* A loop that runs one iteration short.
LoopOneShort(attempt) == attempt + 1 < max_attempts - 1

\* A loop that runs one iteration too many.
LoopOneMore(attempt) == attempt + 1 < max_attempts + 1

\* Lines 86, 91-93: after a caught failure of attempt number `attempt` (0-based)
\* the loop sleeps and goes on while range(max_attempts) has a next value.
LoopContinues(attempt) == attempt + 1 < max_attempts

IdleFrame == [pc |-> "idle", filepath |-> None, attempt |-> 0, seen |-> FALSE,
              log |-> <<>>, again |-> FALSE]

\* The call safe_delete(filepath) by caller r.
SDEnter(r, filepath) ==
    [sd EXCEPT ![r] = [pc |-> "exists", filepath |-> filepath, attempt |-> 0,
                       seen |-> FALSE, log |-> <<>>,
                       again |-> filepath \in deleted]]

\* Lines 82-83: the existence check.
SDExists(r) ==
    /\ sd[r].pc = "exists"
    /\ sd' = [sd EXCEPT ![r].seen = PathExists(sd[r].filepath),
                        ![r].pc = IF SDGuard(sd[r].filepath) THEN "returned" ELSE "unlink"]
    /\ UNCHANGED <<fs, deleted>>

\* Lines 86-93: one iteration of the retry loop, the sleep included.
SDUnlink(r) ==
    /\ sd[r].pc = "unlink"
    /\ LET f == sd[r].filepath
           e == UnlinkResult(f)
       IN  /\ sd' = [sd EXCEPT
                       ![r].log = Append(sd[r].log, e),
                       ![r].attempt = IF Caught(e) THEN @ + 1 ELSE @,
                       ![r].pc = IF e = "ok" THEN "returned"
                                 ELSE IF ~Caught(e) THEN "raised"
                                 ELSE IF LoopContinues(sd[r].attempt) THEN "unlink"
                                 ELSE "returned"]
           /\ fs' = IF e = "ok" THEN [fs EXCEPT ![f] = NoFile] ELSE fs
           /\ deleted' = IF e = "ok" THEN deleted \cup {f} ELSE deleted

SDFinished(r) == sd[r].pc \in {"returned", "raised"}

\* ---------------------------------------------------------------- texts

\* A text is a sequence of character codes. NoText stands for Python's None
\* where a text is expected (no character has a negative code).
NoText == <<-1>>

\* No extraction is running.
ExIdle == [pc |-> "idle", kind |-> "image", opens |-> TRUE, pages |-> <<>>, i |-> 1,
           text |-> <<>>, result |-> <<-1>>, raised |-> FALSE]

Min(a, b) == IF a < b THEN a ELSE b

\* Python's text[i:j] for 0 <= i <= j: the end is clamped to the length.
Slice(text, i, j) == SubSeq(text, i + 1, Min(j, Len(text)))

\* The concatenation of a sequence of texts, in order.
RECURSIVE Concat(_)
Concat(texts) ==
    IF texts = <<>> THEN <<>> ELSE Concat(SubSeq(texts, 1, Len(texts) - 1)) \o texts[Len(texts)]

\* --------------------------------------------------------- translate_text

max_chunk_size == 5000

\* range(0, n, step) as the sequence of its values.
RangeStarts(n, step) == [k \in 1..((n + step - 1) \div step) |-> (k - 1) * step]

\* A split that drops the short chunk at the end.
ChunksDropTail(text) ==
    [k \in 1..(Len(text) \div max_chunk_size) |->
        Slice(text, (k - 1) * max_chunk_size, k * max_chunk_size)]

\* Line 63: [text[i:i+max_chunk_size] for i in range(0, len(text), max_chunk_size)]
Chunks(text) ==
    LET starts == RangeStarts(Len(text), max_chunk_size)
    IN  [k \in 1..Len(starts) |-> Slice(text, starts[k], starts[k] + max_chunk_size)]

\* The translation provider is external. What it does to one character when a
\* call succeeds: letters move to another alphabet, white space stays.
IsSpace(c) == c \in {9, 10, 12, 13, 32}

TranslateChar(c) == IF IsSpace(c) THEN c ELSE c + 1000

\* What one call translator.translate(chunk) can do: answer with the translated
\* chunk ("ok"), answer with an empty text ("empty"), or raise: a network error,
\* a provider error, the socket timeout ("fail").
ProviderOutcomes == {"ok", "empty", "fail"}

ProviderText(chunk, outcome) ==
    IF outcome = "ok" THEN [i \in 1..Len(chunk) |-> TranslateChar(chunk[i])] ELSE <<>>

\* A loop body that puts the new translation in front.
AccumulatePrepend(translated_text, chunk, outcome) ==
    IF outcome = "fail" THEN translated_text
    ELSE ProviderText(chunk, outcome) \o translated_text

\* A loop body that keeps the untranslated chunk when the call raises.
AccumulateKeepsFailed(translated_text, chunk, outcome) ==
    translated_text \o (IF outcome = "fail" THEN chunk ELSE ProviderText(chunk, outcome))

\* Lines 67-72: the loop body. A call that raises leaves translated_text as it is
\* and the loop goes on with the next chunk.
Accumulate(translated_text, chunk, outcome) ==
    IF outcome = "fail" THEN translated_text
    ELSE translated_text \o ProviderText(chunk, outcome)

\* A return that hands back the empty text as it is.
TTResultAsIs(translated_text) == translated_text

\* Line 74: return translated_text if translated_text else None
TTResult(translated_text) == IF translated_text # <<>> THEN translated_text ELSE NoText

\* Lines 75-78: `except Exception` around the whole body.
OuterCatches(e) == e \in {"TypeError", "Exception"}

TTIdle == [pc |-> "idle", text |-> <<>>, chunks |-> <<>>, i |-> 1,
           translated_text |-> <<>>, outcomes |-> <<>>, result |-> NoText,
           raised |-> FALSE]

\* Lines 62-65: the split. len(None) raises TypeError, which the handler of
\* lines 75-78 turns into the result None.
TTSplit ==
    /\ tt.pc = "start"
    /\ tt' = IF tt.text = NoText
             THEN [tt EXCEPT !.pc = "done", !.result = NoText,
                             !.raised = ~OuterCatches("TypeError")]
             ELSE [tt EXCEPT !.pc = "loop", !.chunks = Chunks(tt.text), !.i = 1,
                             !.translated_text = <<>>]

\* Lines 66-72: one iteration of the loop over the chunks.
TTChunk ==
    /\ tt.pc = "loop"
    /\ tt.i <= Len(tt.chunks)
    /\ \E o \in ProviderOutcomes :
          tt' = [tt EXCEPT !.translated_text = Accumulate(@, tt.chunks[tt.i], o),
                           !.outcomes = Append(@, o),
                           !.i = @ + 1]

\* Line 74: the loop is over.
TTReturn ==
    /\ tt.pc = "loop"
    /\ tt.i > Len(tt.chunks)
    /\ tt' = [tt EXCEPT !.pc = "done", !.result = TTResult(tt.translated_text)]

\* translate_text as a whole, given what the provider does on each chunk.
RECURSIVE TranslateFrom(_, _, _, _)
TranslateFrom(chunks, outcomes, k, acc) ==
    IF k > Len(chunks) THEN TTResult(acc)
    ELSE TranslateFrom(chunks, outcomes, k + 1, Accumulate(acc, chunks[k], outcomes[k]))

translate_text(text, outcomes) ==
    IF text = NoText THEN NoText ELSE TranslateFrom(Chunks(text), outcomes, 1, <<>>)

\* ------------------------------------- SpecTT: translate_text on bounded texts

\* The longest text has MaxChunks full chunks.
MaxChunks == 3

\* Lengths at and around the chunk boundaries.
TextLengths ==
    {n \in 0..(MaxChunks * max_chunk_size) :
        n % max_chunk_size \in {0, 1, max_chunk_size - 1}}

\* Two families of texts whose characters vary with the position: lower-case
\* words, and upper-case words broken by blanks and line feeds.
LetterText(n) == [i \in 1..n |-> 97 + (i % 26)]

SpacedText(n) == [i \in 1..n |-> IF i % 7 = 0 THEN 32 ELSE IF i % 31 = 0 THEN 10 ELSE 65 + (i % 23)]

Texts == {LetterText(n) : n \in TextLengths} \cup {SpacedText(n) : n \in TextLengths}
             \cup {NoText}

InitTT ==
    /\ fs = [n \in Names |-> NoFile]
    /\ sd = [r \in Requests |-> IdleFrame]
    /\ deleted = {}
    /\ PipelineIdle
    /\ ex = ExIdle
    /\ \E text \in Texts : tt = [TTIdle EXCEPT !.pc = "start", !.text = text]

TTSplitStep == TTSplit /\ UNCHANGED <<filevars, ex, pipevars>>

TTChunkStep == TTChunk /\ UNCHANGED <<filevars, ex, pipevars>>

TTReturnStep == TTReturn /\ UNCHANGED <<filevars, ex, pipevars>>

NextTT ==
    \/ TTSplitStep
    \/ TTChunkStep
    \/ TTReturnStep

SpecTT == InitTT /\ [][NextTT]_vars

\* ---------------------------------------------- claims about translate_text

\* C8: the chunk list of translate_text is a lossless partition: every chunk is
\* non-empty and at most 5000 characters long, every chunk but the last has
\* exactly 5000 characters, and the chunks concatenated give the text back.
C8_LosslessPartition ==
    (tt.pc \in {"loop", "done"} /\ tt.text # NoText) =>
        /\ \A k \in 1..Len(tt.chunks) :
              /\ Len(tt.chunks[k]) >= 1
              /\ Len(tt.chunks[k]) <= 5000
              /\ k < Len(tt.chunks) => Len(tt.chunks[k]) = 5000
        /\ Concat(tt.chunks) = tt.text

\* A text of two full chunks and one character more has been split.
C8_Witness ==
    /\ tt.pc = "loop"
    /\ Len(tt.chunks) = 3
    /\ Len(tt.chunks[3]) = 1
    /\ Len(tt.text) = 10001

\* The texts the provider gave for the chunks whose call succeeded, in chunk order.
SuccessfulTranslations ==
    Concat([k \in 1..Len(tt.outcomes) |-> ProviderText(tt.chunks[k], tt.outcomes[k])])

SomeChunkSucceeded == \E k \in 1..Len(tt.outcomes) : tt.outcomes[k] # "fail"

\* C9 as claimed: whenever at least one chunk succeeds, translate_text returns
\* exactly the concatenation of the translations of the successful chunks.
C9_AsClaimed ==
    (tt.pc = "done" /\ tt.text # NoText /\ SomeChunkSucceeded) =>
        tt.result = SuccessfulTranslations

\* C9, amended: every chunk is sent to the provider exactly once, failed or not,
\* and when at least one chunk succeeds translate_text returns the concatenation
\* of the translations of the successful chunks in chunk order if that
\* concatenation is not empty, and None if it is empty.
C9_SuccessfulInOrder ==
    (tt.pc = "done" /\ tt.text # NoText) =>
        /\ Len(tt.outcomes) = Len(tt.chunks)
        /\ SomeChunkSucceeded =>
              tt.result = IF SuccessfulTranslations # <<>> THEN SuccessfulTranslations
                          ELSE NoText

\* The second of three chunks failed and the result is the translation of the
\* first followed by that of the third.
C9_Witness ==
    /\ tt.pc = "done"
    /\ tt.outcomes = <<"ok", "fail", "ok">>
    /\ tt.result = ProviderText(tt.chunks[1], "ok") \o ProviderText(tt.chunks[3], "ok")
    /\ Len(tt.result) = Len(tt.chunks[1]) + Len(tt.chunks[3])

\* C10: translate_text returns None exactly when the accumulated translated text
\* is empty after all chunks were processed, in particular when every chunk's
\* call failed, and it never raises.
C10_NoneIffEmpty ==
    (tt.pc = "done") =>
        /\ ~tt.raised
        /\ tt.text # NoText =>
              /\ (tt.result = NoText) <=> (tt.translated_text = <<>>)
              /\ (\A k \in 1..Len(tt.outcomes) : tt.outcomes[k] = "fail") =>
                    tt.result = NoText

\* All three chunks of a text failed and the call returned None.
C10_Witness ==
    /\ tt.pc = "done"
    /\ tt.outcomes = <<"fail", "fail", "fail">>
    /\ tt.result = NoText

\* ------------------------------------------------------------ environment

\* Another process opens the file for a moment (a scanner, an indexer): under
\* mandatory locking the file cannot be unlinked while it is held.
EnvAcquire(f) ==
    /\ fs[f].exists /\ fs[f].lock = "none"
    /\ fs' = [fs EXCEPT ![f].lock = "transient"]

\* The holder lets go.
EnvRelease(f) ==
    /\ fs[f].exists /\ fs[f].lock = "transient"
    /\ fs' = [fs EXCEPT ![f].lock = "none"]

\* The file is removed from outside the program (a temp-directory cleaner).
EnvRemove(f) ==
    /\ fs[f].exists /\ fs[f].lock = "none"
    /\ fs' = [fs EXCEPT ![f] = NoFile]

\* -------------------------------------------------------------- validation

\* A filename is a sequence of characters.
ALLOWED_EXTENSIONS ==
    {<<"p", "d", "f">>, <<"p", "n", "g">>, <<"j", "p", "g">>, <<"j", "p", "e", "g">>,
     <<"b", "m", "p">>, <<"g", "i", "f">>}

UpperCase == <<"A", "B", "C", "D", "E", "F", "G", "H", "I", "J", "K", "L", "M",
               "N", "O", "P", "Q", "R", "S", "T", "U", "V", "W", "X", "Y", "Z">>

LowerCase == <<"a", "b", "c", "d", "e", "f", "g", "h", "i", "j", "k", "l", "m",
               "n", "o", "p", "q", "r", "s", "t", "u", "v", "w", "x", "y", "z">>

\* str.lower()
LowerChar(c) ==
    IF \E i \in 1..26 : UpperCase[i] = c
    THEN LowerCase[CHOOSE i \in 1..26 : UpperCase[i] = c]
    ELSE c

Lower(name) == [i \in 1..Len(name) |-> LowerChar(name[i])]

\* '.' in filename
HasDot(name) == \E i \in 1..Len(name) : name[i] = "."

\* filename.rsplit('.', 1)[1]: what follows the last dot.
AfterLastDot(name) ==
    LET d == CHOOSE i \in 1..Len(name) :
                 name[i] = "." /\ \A j \in (i + 1)..Len(name) : name[j] # "."
    IN  SubSeq(name, d + 1, Len(name))

\* Lines 33-35.
allowed_file(filename) ==
    HasDot(filename) /\ Lower(AfterLastDot(filename)) \in ALLOWED_EXTENSIONS

\* Line 124: filename.endswith(".pdf")
EndsWithPdf(name) ==
    Len(name) >= 4 /\ SubSeq(name, Len(name) - 3, Len(name)) = <<".", "p", "d", "f">>

\* Line 101: 'multipart/form-data' in request.content_type, for the content
\* types a request of the model can carry.
ContentTypes == {None, "application/json", "multipart/form-data; boundary=x"}

HasMultipart(content_type) == content_type = "multipart/form-data; boundary=x"

\* Line 107, `not file`: the truth value of an uploaded file object is that of
\* its filename, so a part sent with an empty filename is falsy like a missing part.
FileTruthy(file) == file.present /\ file.filename # <<>>

MsgContentType == "Content-Type must be multipart/form-data"
MsgNoFile == "No file provided"
MsgNoLanguage == "No target language specified"
MsgEmptyFilename == "Empty filename"
MsgUnsupported == "Unsupported file type"

\* A validation that forgets the extension check.
ValidationErrorNoExtension(req) ==
    IF Falsy(req.content_type) \/ ~HasMultipart(req.content_type) THEN MsgContentType
    ELSE IF ~FileTruthy(req.file) THEN MsgNoFile
    ELSE IF Falsy(req.target_language) THEN MsgNoLanguage
    ELSE IF req.file.filename = <<>> THEN MsgEmptyFilename
    ELSE ""

\* Lines 101-114: the message of the first check that fails, "" if none does.
ValidationError(req) ==
    IF Falsy(req.content_type) \/ ~HasMultipart(req.content_type) THEN MsgContentType
    ELSE IF ~FileTruthy(req.file) THEN MsgNoFile
    ELSE IF Falsy(req.target_language) THEN MsgNoLanguage
    ELSE IF req.file.filename = <<>> THEN MsgEmptyFilename
    ELSE IF ~allowed_file(req.file.filename) THEN MsgUnsupported
    ELSE ""

\* jsonify({"error": message}), status
ErrorResponse(status, message) ==
    [status |-> status, error |-> message, file |-> None, body |-> NoText, exc |-> ""]

\* ------------------------------------------------------------- extraction

\* pytesseract.image_to_string raising on a page.
OcrError == <<-2>>

\* text.strip() is empty.
IsBlank(text) == \A i \in 1..Len(text) : IsSpace(text[i])

\* Lines 37-45. `opens`: Image.open succeeds; `page`: what OCR gives for the image.
extract_text_from_image(opens, page) ==
    IF ~opens \/ page = OcrError THEN NoText
    ELSE IF ~IsBlank(page) THEN page ELSE NoText

\* Lines 47-57. `rasterized`: convert_from_path succeeds; `pages`: what OCR gives
\* for each page image, in page order.
extract_text_from_pdf(rasterized, pages) ==
    IF ~rasterized \/ \E k \in 1..Len(pages) : pages[k] = OcrError THEN NoText
    ELSE LET text == Concat(pages)
         IN  IF ~IsBlank(text) THEN text ELSE NoText

\* The longest PDF has MaxPages pages.
MaxPages == 2

\* What OCR can give for one page: "Hi", a blank page, an engine error.
PageResults == {<<72, 105>>, <<32, 10>>, OcrError}

SeqsUpTo(S, n) == UNION {[1..k -> S] : k \in 0..n}

ImageDocs == {[rasterized |-> TRUE, pages |-> <<p>>] : p \in PageResults}

PdfDocs == {[rasterized |-> FALSE, pages |-> <<>>]}
              \cup {[rasterized |-> TRUE, pages |-> ps] : ps \in SeqsUpTo(PageResults, MaxPages)}

\* ------------------------- SpecEX: the extractors, statement by statement

\* The longest PDF given to the extractor alone has MaxExPages pages.
MaxExPages == 3

\* What OCR can give for one page: "Hi", "Yo", a blank page, an engine error.
ExPageResults == PageResults \cup {<<89, 111>>}

\* A loop body that puts the new page in front.
PrependPage(text, page) == page \o text

\* Line 52: text += pytesseract.image_to_string(image)
AppendPage(text, page) == text \o page

\* A handler that hands back what was read before the failure.
ExFailurePartial(text) == IF text # <<>> THEN text ELSE NoText

\* Lines 42-45 and 54-57: the handler returns None, whatever was read so far.
ExFailure(text) == NoText

\* Lines 41 and 53: return text if text.strip() else None
ExResult(text) == IF ~IsBlank(text) THEN text ELSE NoText

\* Lines 42 and 54: `except Exception` around the whole body.
ExCatches(e) == e \in {"OpenError", "OcrError"}

\* Lines 39 and 49-50: Image.open, or convert_from_path, which may raise.
ExOpen ==
    /\ ex.pc = "start"
    /\ ex' = IF ex.opens
             THEN [ex EXCEPT !.pc = "loop", !.text = <<>>, !.i = 1]
             ELSE [ex EXCEPT !.pc = "done", !.result = ExFailure(ex.text),
                             !.raised = ~ExCatches("OpenError")]

\* Lines 40 and 51-52: OCR of the next page image, which may raise.
ExPage ==
    /\ ex.pc = "loop"
    /\ ex.i <= Len(ex.pages)
    /\ ex' = IF ex.pages[ex.i] = OcrError
             THEN [ex EXCEPT !.pc = "done", !.result = ExFailure(ex.text),
                             !.raised = ~ExCatches("OcrError")]
             ELSE [ex EXCEPT !.text = AppendPage(@, ex.pages[ex.i]), !.i = @ + 1]

\* Lines 41 and 53: every page is read.
ExReturn ==
    /\ ex.pc = "loop"
    /\ ex.i > Len(ex.pages)
    /\ ex' = [ex EXCEPT !.pc = "done", !.result = ExResult(ex.text)]

\* An image is one page; a PDF is rasterized into 0 to MaxExPages pages.
ExInputs ==
    {[ExIdle EXCEPT !.pc = "start", !.kind = "image", !.opens = o, !.pages = <<p>>] :
        o \in BOOLEAN, p \in ExPageResults}
    \cup
    {[ExIdle EXCEPT !.pc = "start", !.kind = "pdf", !.opens = o, !.pages = ps] :
        o \in BOOLEAN, ps \in SeqsUpTo(ExPageResults, MaxExPages)}

InitEX ==
    /\ fs = [n \in Names |-> NoFile]
    /\ sd = [r \in Requests |-> IdleFrame]
    /\ deleted = {}
    /\ tt = TTIdle
    /\ PipelineIdle
    /\ ex \in ExInputs

ExOpenStep == ExOpen /\ UNCHANGED <<filevars, tt, pipevars>>

ExPageStep == ExPage /\ UNCHANGED <<filevars, tt, pipevars>>

ExReturnStep == ExReturn /\ UNCHANGED <<filevars, tt, pipevars>>

NextEX ==
    \/ ExOpenStep
    \/ ExPageStep
    \/ ExReturnStep

SpecEX == InitEX /\ [][NextEX]_vars

\* ------------------------------------------------ claims about extraction

AllPagesRead == \A k \in 1..Len(ex.pages) : ex.pages[k] # OcrError

\* C11: for a PDF rasterized into N pages on which OCR succeeds for every page,
\* extract_text_from_pdf returns the per-page OCR outputs concatenated in page
\* order, provided that concatenation is not white space only.
C11_PagesInOrder ==
    (/\ ex.pc = "done" /\ ex.kind = "pdf" /\ ex.opens /\ AllPagesRead
     /\ ~IsBlank(Concat(ex.pages)))
        => /\ ex.result = Concat(ex.pages)
           /\ \A k \in 1..Len(ex.pages) :
                 SubSeq(ex.result, Len(Concat(SubSeq(ex.pages, 1, k - 1))) + 1,
                        Len(Concat(SubSeq(ex.pages, 1, k)))) = ex.pages[k]

\* A PDF of the pages "Hi", blank, "Yo" has been extracted as "Hi \nYo".
C11_Witness ==
    /\ ex.pc = "done"
    /\ ex.kind = "pdf"
    /\ ex.pages = <<<<72, 105>>, <<32, 10>>, <<89, 111>>>>
    /\ ex.result = <<72, 105, 32, 10, 89, 111>>

\* C12: extraction is all-or-nothing and never raises: when rasterization (or
\* opening the image) fails or OCR raises on any page, the extractor returns
\* None, with nothing of the pages read before, and no exception leaves it. The
\* extractor as upload_file applies it gives the same result.
C12_AllOrNothing ==
    (ex.pc = "done") =>
        /\ ~ex.raised
        /\ (~ex.opens \/ ~AllPagesRead) => ex.result = NoText
        /\ ex.result = IF ex.kind = "pdf"
                       THEN extract_text_from_pdf(ex.opens, ex.pages)
                       ELSE extract_text_from_image(ex.opens, ex.pages[1])

\* OCR raised on the second page of a PDF after "Hi" was read from the first,
\* and the extractor returned None.
C12_Witness ==
    /\ ex.pc = "done"
    /\ ex.kind = "pdf"
    /\ ex.pages = <<<<72, 105>>, OcrError>>
    /\ ex.text = <<72, 105>>
    /\ ex.result = NoText

\* ------------------------------------------------------------ upload_file

Filenames ==
    {<<>>,
     <<"d", "o", "c", ".", "p", "d", "f">>,
     <<"s", "c", "a", "n", ".", "P", "N", "G">>,
     <<"i", "m", "a", "g", "e", ".", "x", "y", "z">>,
     <<"n", "o", "e", "x", "t">>,
     <<"a", ".", "j", "p", "g", ".", "e", "x", "e">>}

Uploads == {NoUpload} \cup {[present |-> TRUE, filename |-> n] : n \in Filenames}

Languages == {None, "", "fr"}

RequestInputs ==
    [content_type : ContentTypes, file : Uploads, target_language : Languages]

Step(r, name) == [hist EXCEPT ![r].steps = Append(@, name)]

\* A request with one of the given inputs arrives: lines 96-98.
ReceiveFrom(r, inputs) ==
    /\ pc[r] = "idle"
    /\ \E req \in inputs : request' = [request EXCEPT ![r] = req]
    /\ pc' = [pc EXCEPT ![r] = "validate"]
    /\ UNCHANGED <<filevars, tt, ex, locals, response, hist>>

Receive(r) == ReceiveFrom(r, RequestInputs)

\* A tempfile that takes a name whether or not a file has it.
NameTaken(n) == TRUE

\* Lines 119, 140: tempfile.NamedTemporaryFile creates its file exclusively
\* (O_EXCL), so only under a name that no existing file has.
NameFree(n) == ~fs[n].exists

\* Lines 101-116: the five checks; a failing one returns its 400 at once.
Validate(r) ==
    /\ pc[r] = "validate"
    /\ LET err == ValidationError(request[r])
       IN  IF err # ""
           THEN /\ response' = [response EXCEPT ![r] = ErrorResponse(400, err)]
                /\ pc' = [pc EXCEPT ![r] = "finally"]
                /\ UNCHANGED locals
           ELSE /\ locals' = [locals EXCEPT ![r].filename = Lower(request[r].file.filename)]
                /\ pc' = [pc EXCEPT ![r] = "store_input"]
                /\ UNCHANGED response
    /\ hist' = Step(r, "validate")
    /\ UNCHANGED <<filevars, tt, ex, request>>

\* What creating and filling a temp file can do: tempfile cannot create the file,
\* the file is created and the write into it raises, or both succeed.
StoreOutcomes == {"ok", "write_fails", "create_fails"}

\* Lines 119-121: the temp input file is created (under a name no file has),
\* the upload is saved into it, and only then is temp_input_path assigned.
\* The suffix given to the name plays no part in what follows.
StoreInput(r) ==
    /\ pc[r] = "store_input"
    /\ \E o \in StoreOutcomes :
          IF o = "create_fails"
          THEN /\ pc' = [pc EXCEPT ![r] = "except"]
               /\ hist' = Step(r, "store_input")
               /\ UNCHANGED <<fs, deleted, locals>>
          ELSE \E n \in Names :
               /\ NameFree(n)
               /\ fs' = [fs EXCEPT ![n] = [exists |-> TRUE, lock |-> "none", content |-> <<>>,
                                          owner |-> r]]
               /\ deleted' = deleted \ {n}
               /\ hist' = [hist EXCEPT ![r].created = @ \cup {n},
                                       ![r].steps = Append(@, "store_input")]
               /\ IF o = "ok"
                  THEN /\ locals' = [locals EXCEPT ![r].temp_input_path = n]
                       /\ pc' = [pc EXCEPT ![r] = "extract"]
                  ELSE /\ pc' = [pc EXCEPT ![r] = "except"]
                       /\ UNCHANGED locals
    /\ UNCHANGED <<sd, tt, ex, request, response>>

\* A test that lets a failed extraction through.
ExtractionAbortsNever(text) == FALSE

\* Line 129: extracted_text is None
ExtractionAborts(text) == text = NoText

\* Lines 124-132: the extractor is chosen by the extension and its result checked.
Extract(r) ==
    /\ pc[r] = "extract"
    /\ LET opens == PathExists(locals[r].temp_input_path)
           pdf == EndsWithPdf(locals[r].filename)
       IN  \E doc \in (IF pdf THEN PdfDocs ELSE ImageDocs) :
             LET text == IF pdf
                         THEN extract_text_from_pdf(opens /\ doc.rasterized, doc.pages)
                         ELSE extract_text_from_image(opens, doc.pages[1])
             IN  /\ locals' = [locals EXCEPT ![r].extracted_text = text]
                 /\ hist' = [hist EXCEPT
                               ![r].steps = Append(@, "extract"),
                               ![r].doc = [opens |-> opens, rasterized |-> doc.rasterized,
                                           pages |-> doc.pages]]
                 /\ IF ExtractionAborts(text)
                    THEN /\ response' = [response EXCEPT
                                           ![r] = ErrorResponse(500, "Text extraction failed")]
                         /\ pc' = [pc EXCEPT ![r] = "finally"]
                    ELSE IF IsBlank(text)
                    THEN /\ response' = [response EXCEPT
                                           ![r] = ErrorResponse(400, "No text found in document")]
                         /\ pc' = [pc EXCEPT ![r] = "finally"]
                    ELSE /\ pc' = [pc EXCEPT ![r] = "translate"]
                         /\ UNCHANGED response
    /\ UNCHANGED <<filevars, tt, ex, request>>

\* Lines 135-137.
Translate(r) ==
    /\ pc[r] = "translate"
    /\ LET text == locals[r].extracted_text
       IN  \E outcomes \in [1..Len(Chunks(text)) -> ProviderOutcomes] :
             LET translated == translate_text(text, outcomes)
             IN  /\ locals' = [locals EXCEPT ![r].translated_text = translated]
                 /\ hist' = [hist EXCEPT ![r].steps = Append(@, "translate"),
                                         ![r].outcomes = outcomes]
                 /\ IF translated = NoText
                    THEN /\ response' = [response EXCEPT
                                           ![r] = ErrorResponse(500, "Translation failed")]
                         /\ pc' = [pc EXCEPT ![r] = "finally"]
                    ELSE /\ pc' = [pc EXCEPT ![r] = "store_output"]
                         /\ UNCHANGED response
    /\ UNCHANGED <<filevars, tt, ex, request>>

\* Lines 140-142: the temp output file is created, the translation written into
\* it, and only then is output_path assigned.
StoreOutput(r) ==
    /\ pc[r] = "store_output"
    /\ \E o \in StoreOutcomes :
          IF o = "create_fails"
          THEN /\ pc' = [pc EXCEPT ![r] = "except"]
               /\ hist' = Step(r, "store_output")
               /\ UNCHANGED <<fs, deleted, locals>>
          ELSE \E n \in Names :
               /\ NameFree(n)
               /\ fs' = [fs EXCEPT ![n] =
                           [exists |-> TRUE, lock |-> "none",
                            content |-> IF o = "ok" THEN locals[r].translated_text ELSE <<>>,
                            owner |-> r]]
               /\ deleted' = deleted \ {n}
               /\ hist' = [hist EXCEPT ![r].created = @ \cup {n},
                                       ![r].steps = Append(@, "store_output")]
               /\ IF o = "ok"
                  THEN /\ locals' = [locals EXCEPT ![r].output_path = n]
                       /\ pc' = [pc EXCEPT ![r] = "send"]
                  ELSE /\ pc' = [pc EXCEPT ![r] = "except"]
                       /\ UNCHANGED locals
    /\ UNCHANGED <<sd, tt, ex, request, response>>

\* Lines 145-158: send_file opens the output file and the response that holds the
\* open file is returned. Whether a file held open can be unlinked depends on the
\* host: `holds` is TRUE where it cannot. Opening a file that is gone raises.
SendFile(r) ==
    /\ pc[r] = "send"
    /\ LET f == locals[r].output_path
       IN  IF ~PathExists(f)
           THEN /\ pc' = [pc EXCEPT ![r] = "except"]
                /\ UNCHANGED <<fs, response>>
           ELSE \E holds \in BOOLEAN :
                /\ fs' = [fs EXCEPT ![f].lock = IF holds THEN "response" ELSE @]
                /\ response' = [response EXCEPT
                                  ![r] = [status |-> 200, error |-> "", file |-> f,
                                          body |-> fs[f].content, exc |-> ""]]
                /\ pc' = [pc EXCEPT ![r] = "finally"]
    /\ hist' = Step(r, "respond")
    /\ UNCHANGED <<sd, deleted, tt, ex, request, locals>>

\* Lines 160-163: the handler of any exception raised in the try block.
Except(r) ==
    /\ pc[r] = "except"
    /\ response' = [response EXCEPT ![r] = ErrorResponse(500, "Internal Server Error")]
    /\ pc' = [pc EXCEPT ![r] = "finally"]
    /\ UNCHANGED <<filevars, tt, ex, request, locals, hist>>

\* An exception that leaves upload_file in place of the response.
RaisedResponse(e) ==
    [status |-> 0, error |-> "", file |-> None, body |-> NoText, exc |-> e]

LastError(r) == sd[r].log[Len(sd[r].log)]

\* Line 167: safe_delete(temp_input_path) is called.
FinallyInput(r) ==
    /\ pc[r] = "finally"
    /\ sd' = SDEnter(r, locals[r].temp_input_path)
    /\ hist' = [hist EXCEPT ![r].cleaned = @ \cup {locals[r].temp_input_path}]
    /\ pc' = [pc EXCEPT ![r] = "cleanup_input"]
    /\ UNCHANGED <<fs, deleted, tt, ex, request, locals, response>>

\* Line 168: safe_delete(output_path) is called once the first call has returned;
\* if the first call raised, its exception leaves upload_file at once.
FinallyOutput(r) ==
    /\ pc[r] = "cleanup_input"
    /\ SDFinished(r)
    /\ IF sd[r].pc = "raised"
       THEN /\ response' = [response EXCEPT ![r] = RaisedResponse(LastError(r))]
            /\ pc' = [pc EXCEPT ![r] = "returned"]
            /\ UNCHANGED <<sd, hist>>
       ELSE /\ sd' = SDEnter(r, locals[r].output_path)
            /\ hist' = [hist EXCEPT ![r].cleaned = @ \cup {locals[r].output_path}]
            /\ pc' = [pc EXCEPT ![r] = "cleanup_output"]
            /\ UNCHANGED response
    /\ UNCHANGED <<fs, deleted, tt, ex, request, locals>>

\* The finally block is over: upload_file returns its response to the framework,
\* or the exception of the second safe_delete leaves it.
Return(r) ==
    /\ pc[r] = "cleanup_output"
    /\ SDFinished(r)
    /\ response' = IF sd[r].pc = "raised"
                   THEN [response EXCEPT ![r] = RaisedResponse(LastError(r))]
                   ELSE response
    /\ pc' = [pc EXCEPT ![r] = "returned"]
    /\ UNCHANGED <<filevars, tt, ex, request, locals, hist>>

\* The transport layer sends the response: it reads the body of a file response
\* through the open file and closes it.
Consume(r) ==
    /\ pc[r] = "returned"
    /\ pc' = [pc EXCEPT ![r] = "sent"]
    /\ LET f == response[r].file
       IN  fs' = IF f # None /\ fs[f].exists /\ fs[f].owner = r /\ fs[f].lock = "response"
                 THEN [fs EXCEPT ![f].lock = "none"]
                 ELSE fs
    /\ UNCHANGED <<sd, deleted, tt, ex, request, locals, response, hist>>

InCleanup(r) == pc[r] \in {"cleanup_input", "cleanup_output"}

Init ==
    /\ fs = [n \in Names |-> NoFile]
    /\ sd = [r \in Requests |-> IdleFrame]
    /\ deleted = {}
    /\ tt = TTIdle
    /\ ex = ExIdle
    /\ PipelineIdle

DoReceive == \E r \in Requests : Receive(r)
DoValidate == \E r \in Requests : Validate(r)
DoStoreInput == \E r \in Requests : StoreInput(r)
DoExtract == \E r \in Requests : Extract(r)
DoTranslate == \E r \in Requests : Translate(r)
DoStoreOutput == \E r \in Requests : StoreOutput(r)
DoSendFile == \E r \in Requests : SendFile(r)
DoExcept == \E r \in Requests : Except(r)
DoFinallyInput == \E r \in Requests : FinallyInput(r)
DoFinallyOutput == \E r \in Requests : FinallyOutput(r)
DoSafeDeleteExists ==
    \E r \in Requests : InCleanup(r) /\ SDExists(r) /\ UNCHANGED <<tt, ex, pipevars>>
DoSafeDeleteUnlink ==
    \E r \in Requests : InCleanup(r) /\ SDUnlink(r) /\ UNCHANGED <<tt, ex, pipevars>>
DoReturn == \E r \in Requests : Return(r)
DoConsume == \E r \in Requests : Consume(r)
DoEnvAcquire == \E f \in Names : EnvAcquire(f) /\ UNCHANGED <<sd, deleted, tt, ex, pipevars>>
DoEnvRelease == \E f \in Names : EnvRelease(f) /\ UNCHANGED <<sd, deleted, tt, ex, pipevars>>
DoEnvRemove == \E f \in Names : EnvRemove(f) /\ UNCHANGED <<sd, deleted, tt, ex, pipevars>>

Next ==
    \/ DoReceive
    \/ DoValidate
    \/ DoStoreInput
    \/ DoExtract
    \/ DoTranslate
    \/ DoStoreOutput
    \/ DoSendFile
    \/ DoExcept
    \/ DoFinallyInput
    \/ DoFinallyOutput
    \/ DoSafeDeleteExists
    \/ DoSafeDeleteUnlink
    \/ DoReturn
    \/ DoConsume
    \/ DoEnvAcquire
    \/ DoEnvRelease
    \/ DoEnvRemove

Spec == Init /\ [][Next]_vars

\* ------------------------------------------- SpecCC: two requests at a time
\* Flask serves each request on a thread of its own; the threads share nothing
\* but the directory of temp files. Both requests carry an upload that is an
\* image and passes validation, and no other process touches the directory.

Clients == {"r1", "r2"}

ClientInputs ==
    {req \in RequestInputs :
        /\ ValidationError(req) = ""
        /\ EndsWithPdf(Lower(req.file.filename)) = FALSE}

InitCC ==
    /\ fs = [n \in Names |-> NoFile]
    /\ sd = [r \in Clients |-> IdleFrame]
    /\ deleted = {}
    /\ tt = TTIdle
    /\ ex = ExIdle
    /\ pc = [r \in Clients |-> "idle"]
    /\ request = [r \in Clients |-> NoRequest]
    /\ locals = [r \in Clients |-> NoLocals]
    /\ response = [r \in Clients |-> NoResponse]
    /\ hist = [r \in Clients |-> NoHist]

CCReceive == \E r \in Clients : ReceiveFrom(r, ClientInputs)
CCValidate == \E r \in Clients : Validate(r)
CCStoreInput == \E r \in Clients : StoreInput(r)
CCExtract == \E r \in Clients : Extract(r)
CCTranslate == \E r \in Clients : Translate(r)
CCStoreOutput == \E r \in Clients : StoreOutput(r)
CCSendFile == \E r \in Clients : SendFile(r)
CCExcept == \E r \in Clients : Except(r)
CCFinallyInput == \E r \in Clients : FinallyInput(r)
CCFinallyOutput == \E r \in Clients : FinallyOutput(r)
CCSafeDeleteExists ==
    \E r \in Clients : InCleanup(r) /\ SDExists(r) /\ UNCHANGED <<tt, ex, pipevars>>
CCSafeDeleteUnlink ==
    \E r \in Clients : InCleanup(r) /\ SDUnlink(r) /\ UNCHANGED <<tt, ex, pipevars>>
CCReturn == \E r \in Clients : Return(r)
CCConsume == \E r \in Clients : Consume(r)

NextCC ==
    \/ CCReceive
    \/ CCValidate
    \/ CCStoreInput
    \/ CCExtract
    \/ CCTranslate
    \/ CCStoreOutput
    \/ CCSendFile
    \/ CCExcept
    \/ CCFinallyInput
    \/ CCFinallyOutput
    \/ CCSafeDeleteExists
    \/ CCSafeDeleteUnlink
    \/ CCReturn
    \/ CCConsume

SpecCC == InitCC /\ [][NextCC]_vars

\* ------------------------------------------------- claims about upload_file

Left(r) == pc[r] \in {"returned", "sent"}

\* C1: whenever a request has left upload_file, safe_delete has been called on
\* every temporary file the request created.
C1_AllCreatedCleaned ==
    \A r \in Requests : Left(r) => hist[r].created \subseteq hist[r].cleaned

\* C2: on the success path the output file is not deleted by safe_delete before
\* the transport layer has consumed the response that holds it.
C2_OutputKeptUntilConsumed ==
    \A r \in Requests :
        (response[r].status = 200 /\ pc[r] # "sent") => response[r].file \notin deleted

ValidationMessages ==
    {MsgContentType, MsgNoFile, MsgNoLanguage, MsgEmptyFilename, MsgUnsupported}

\* The five conditions a request must meet, as the claims name them.
PassesAllChecks(req) ==
    /\ req.content_type = "multipart/form-data; boundary=x"
    /\ req.file.present
    /\ req.target_language \notin {None, ""}
    /\ req.file.filename # <<>>
    /\ allowed_file(req.file.filename)

\* C3: no temp file is created for a request before all five validation checks
\* have passed, and a request rejected by validation has created none.
C3_NoTempBeforeValidation ==
    \A r \in Requests :
        /\ hist[r].created # {} =>
              (PassesAllChecks(request[r]) /\ hist[r].steps[1] = "validate")
        /\ (response[r].status = 400 /\ response[r].error \in ValidationMessages) =>
              (hist[r].created = {} /\ locals[r].temp_input_path = None
                                    /\ locals[r].output_path = None)

\* A request with a disallowed extension has been answered and created no file.
C3_Witness ==
    \E r \in Requests :
        /\ pc[r] = "sent"
        /\ response[r].status = 400
        /\ response[r].error = MsgUnsupported
        /\ hist[r].created = {}

\* The message of the first failing check in the claimed order: content type,
\* file present, target language present, filename non-empty, extension allowed.
ClaimedMessage(req) ==
    IF req.content_type # "multipart/form-data; boundary=x" THEN MsgContentType
    ELSE IF ~req.file.present THEN MsgNoFile
    ELSE IF req.target_language \in {None, ""} THEN MsgNoLanguage
    ELSE IF req.file.filename = <<>> THEN MsgEmptyFilename
    ELSE IF ~allowed_file(req.file.filename) THEN MsgUnsupported
    ELSE ""

\* C4: a request that fails a validation check is answered 400 with the message
\* of the first failing check; a file with an empty filename gets "Empty filename".
C4_FirstFailingCheck ==
    \A r \in Requests :
        (pc[r] \notin {"idle", "validate"} /\ ClaimedMessage(request[r]) # "") =>
            (response[r].status = 400 /\ response[r].error = ClaimedMessage(request[r]))

\* Has request r taken the named step?
Did(r, name) == \E i \in 1..Len(hist[r].steps) : hist[r].steps[i] = name

PastTry(r) == pc[r] \in {"finally", "cleanup_input", "cleanup_output", "returned", "sent"}

InFinallyOrLater(r) == pc[r] \in {"cleanup_input", "cleanup_output", "returned", "sent"}

\* The stored upload was read and OCR succeeded on every page.
OcrSucceeded(r) ==
    /\ hist[r].doc.opens
    /\ hist[r].doc.rasterized
    /\ \A k \in 1..Len(hist[r].doc.pages) : hist[r].doc.pages[k] # OcrError

\* C13: an upload that passes validation and whose OCR result is empty or white
\* space only is answered 400 {"error": "No text found in document"}.
C13_BlankIs400 ==
    \A r \in Requests :
        (/\ Did(r, "extract") /\ OcrSucceeded(r) /\ IsBlank(Concat(hist[r].doc.pages))
         /\ response[r].exc = "")
            => response[r] = ErrorResponse(400, "No text found in document")

\* The provider raised on every chunk of the extracted text.
AllChunksFailed(r) ==
    /\ Did(r, "translate")
    /\ Len(hist[r].outcomes) >= 1
    /\ \A k \in 1..Len(hist[r].outcomes) : hist[r].outcomes[k] = "fail"

TranslationFailedResponse == ErrorResponse(500, "Translation failed")

C15_AlwaysJsonError ==
    \A r \in Requests :
        Left(r) =>
            /\ response[r].exc = ""
            /\ response[r].status \in {200, 400, 500}
            /\ response[r].status # 200 => response[r].error # ""

\* The temp file names request r has been given and has not yet finished cleaning.
Holds(r) ==
    {p \in {locals[r].temp_input_path, locals[r].output_path} \cap Names :
        ~(/\ p \in hist[r].cleaned
          /\ ~(sd[r].filepath = p /\ sd[r].pc \in {"exists", "unlink"}))}

\* Request r takes a step of upload_file or of one of its safe_delete calls.
Acts(r) == pc'[r] # pc[r] \/ sd'[r] # sd[r]

\* The file named p that request r is about to read, test or unlink is its own.
TouchesOwn(r, p) == (p \in Names /\ fs[p].exists) => fs[p].owner = r

\* C16: with two requests interleaved in any way, a temp file is created,
\* written, read and deleted only by the request that created it, and no two
\* requests hold the same temp file name at the same time.
C16_ExclusiveOwnership ==
    /\ [](\A r1, r2 \in Clients : r1 # r2 => Holds(r1) \cap Holds(r2) = {})
    /\ [](\A r \in Clients : \A p \in Holds(r) : fs[p].exists /\ fs[p].owner = r)
    /\ [][\A r \in Clients : Acts(r) =>
            /\ \A f \in Names :
                  fs'[f] # fs[f] =>
                     /\ fs[f].exists => fs[f].owner = r
                     /\ fs'[f].exists => fs'[f].owner = r
            /\ pc[r] = "extract" => TouchesOwn(r, locals[r].temp_input_path)
            /\ pc[r] = "send" => TouchesOwn(r, locals[r].output_path)
            /\ sd[r].pc \in {"exists", "unlink"} => TouchesOwn(r, sd[r].filepath)]_vars

\* One request, still cleaning up its output file, has removed its input file,
\* and the other request has been given that very name for a file of its own.
C16_Witness ==
    \E r1, r2 \in Clients :
        /\ r1 # r2
        /\ pc[r1] = "cleanup_output"
        /\ locals[r1].output_path \in Holds(r1)
        /\ locals[r1].temp_input_path \in Holds(r2)
        /\ fs[locals[r1].temp_input_path].owner = r2

PipelineOrder ==
    <<"validate", "store_input", "extract", "translate", "store_output", "respond">>

IsPrefix(s, t) == Len(s) <= Len(t) /\ SubSeq(t, 1, Len(s)) = s

\* Extraction failed: the upload could not be read, OCR raised, or nothing but
\* white space was found.
ExtractionFailed(r) ==
    Did(r, "extract") /\ (~OcrSucceeded(r) \/ IsBlank(Concat(hist[r].doc.pages)))

\* Translation failed: no chunk gave any translated text.
TranslationFailed(r) ==
    /\ Did(r, "translate")
    /\ \A k \in 1..Len(hist[r].outcomes) : hist[r].outcomes[k] \in {"fail", "empty"}

\* C17: the steps of a request are taken in the order validate, store input,
\* extract, translate, store output, respond, and none is taken after the first
\* failure: the translator is not called when extraction failed, no output file
\* is created when extraction or translation failed, and on an extraction failure
\* only the input file has been created, on which safe_delete is still called.
C17_OrderedAndTerminal ==
    \A r \in Requests :
        /\ IsPrefix(hist[r].steps, PipelineOrder)
        /\ response[r].status \in {400, 500} => PastTry(r)
        /\ (Did(r, "validate") /\ ~PassesAllChecks(request[r])) =>
              (hist[r].steps = <<"validate">> /\ PastTry(r))
        /\ ExtractionFailed(r) =>
              /\ PastTry(r)
              /\ ~Did(r, "translate")
              /\ ~Did(r, "store_output")
              /\ hist[r].created = {locals[r].temp_input_path}
              /\ locals[r].output_path = None
              /\ InFinallyOrLater(r) => locals[r].temp_input_path \in hist[r].cleaned
        /\ TranslationFailed(r) =>
              /\ PastTry(r)
              /\ ~Did(r, "store_output")
              /\ locals[r].output_path = None

\* OCR raised on a page, the request stopped after the extract step and its
\* input file, the only file created, was removed by safe_delete.
C17_Witness ==
    \E r \in Requests :
        /\ pc[r] = "sent"
        /\ hist[r].steps = <<"validate", "store_input", "extract">>
        /\ hist[r].doc.opens
        /\ \E k \in 1..Len(hist[r].doc.pages) : hist[r].doc.pages[k] = OcrError
        /\ Cardinality(hist[r].created) = 1
        /\ locals[r].temp_input_path \in deleted

\* C19: a 200 response exists only if extraction returned a text that is not
\* white space only and at least one chunk was translated to a non-empty text;
\* the file it carries is not empty and holds exactly what translate_text returned.
C19_SuccessHasText ==
    \A r \in Requests :
        response[r].status = 200 =>
            /\ locals[r].extracted_text # NoText
            /\ ~IsBlank(locals[r].extracted_text)
            /\ \E k \in 1..Len(hist[r].outcomes) :
                  /\ hist[r].outcomes[k] = "ok"
                  /\ ProviderText(Chunks(locals[r].extracted_text)[k], "ok") # <<>>
            /\ response[r].body # <<>>
            /\ response[r].body # NoText
            /\ response[r].body = locals[r].translated_text
            /\ response[r].body = translate_text(locals[r].extracted_text, hist[r].outcomes)

\* The translation of "Hi" has been sent with status 200.
C19_Witness ==
    \E r \in Requests :
        /\ pc[r] = "sent"
        /\ response[r].status = 200
        /\ locals[r].extracted_text = <<72, 105>>
        /\ response[r].body = <<1072, 1105>>

\* -------------------------------------------- SpecSD: safe_delete on any path

TheCaller == CHOOSE r \in Requests : TRUE

FileStates == {NoFile,
               [exists |-> TRUE, lock |-> "none", content |-> <<>>, owner |-> ""],
               [exists |-> TRUE, lock |-> "transient", content |-> <<>>, owner |-> ""]}

InitSD ==
    /\ fs \in [Names -> FileStates]
    /\ sd = [r \in Requests |-> IdleFrame]
    /\ deleted = {}
    /\ tt = TTIdle
    /\ ex = ExIdle
    /\ PipelineIdle

SDCall ==
    /\ sd[TheCaller].pc \in {"idle", "returned", "raised"}
    /\ \E p \in Paths : sd' = SDEnter(TheCaller, p)
    /\ UNCHANGED <<fs, deleted, tt, ex, pipevars>>

SDCheckStep == SDExists(TheCaller) /\ UNCHANGED <<tt, ex, pipevars>>

SDUnlinkStep == SDUnlink(TheCaller) /\ UNCHANGED <<tt, ex, pipevars>>

SDEnvAcquire == \E f \in Names : EnvAcquire(f) /\ UNCHANGED <<sd, deleted, tt, ex, pipevars>>

SDEnvRelease == \E f \in Names : EnvRelease(f) /\ UNCHANGED <<sd, deleted, tt, ex, pipevars>>

SDEnvRemove == \E f \in Names : EnvRemove(f) /\ UNCHANGED <<sd, deleted, tt, ex, pipevars>>

NextSD ==
    \/ SDCall
    \/ SDCheckStep
    \/ SDUnlinkStep
    \/ SDEnvAcquire
    \/ SDEnvRelease
    \/ SDEnvRemove

SpecSD == InitSD /\ [][NextSD]_vars

\* Every statement of safe_delete that is ready to run does run: os.path.exists
\* and os.unlink return, time.sleep(0.1) ends.
SpecSDFair == SpecSD /\ WF_vars(SDCheckStep) /\ WF_vars(SDUnlinkStep)

\* ------------------------------------------------- claims about safe_delete

\* C5: safe_delete never escalates a deletion failure to its caller: whatever
\* error os.unlink reports on any attempt, the call returns normally.
C5_NeverEscalates == \A r \in Requests : sd[r].pc # "raised"

\* C6: an unlink attempt on a file that is not (or no longer) locked removes it
\* and ends the call; an attempt on a locked file changes no file, is followed by
\* another attempt if it was the first or the second, and after the third the
\* call returns without raising, the file left in place.
C6_LockedRetry ==
    [][\A r \in Requests :
         (sd[r].pc = "unlink" /\ sd'[r] # sd[r]) =>
            LET f == sd[r].filepath IN
            /\ (fs[f].exists /\ fs[f].lock = "none") =>
                   (sd'[r].pc = "returned" /\ ~fs'[f].exists)
            /\ (fs[f].exists /\ fs[f].lock # "none") =>
                   /\ fs' = fs
                   /\ sd'[r].pc = IF Len(sd[r].log) < 2 THEN "unlink" ELSE "returned"]_vars

\* The lock was released between the second and the third attempt, and the
\* third attempt removed the file.
C6_Witness ==
    \E r \in Requests :
        /\ sd[r].pc = "returned"
        /\ sd[r].log = <<"PermissionError", "PermissionError", "ok">>
        /\ ~PathExists(sd[r].filepath)

\* The other case of C6: three attempts on a file that stayed locked.
C6_WitnessAbandoned ==
    \E r \in Requests :
        /\ sd[r].pc = "returned"
        /\ sd[r].log = <<"PermissionError", "PermissionError", "PermissionError">>
        /\ PathExists(sd[r].filepath)

\* C7: safe_delete on None, on '' or on a path that does not exist (one that an
\* earlier safe_delete removed included) makes no unlink attempt, changes no
\* file and returns without error.
C7_NoOp ==
    /\ [](\A r \in Requests :
            (SDFinished(r) /\ (Falsy(sd[r].filepath) \/ ~sd[r].seen \/ sd[r].again))
               => (sd[r].pc = "returned" /\ sd[r].log = <<>>))
    /\ [][\A r \in Requests :
            (sd[r].pc = "exists" /\ sd'[r].pc = "returned") => fs' = fs]_vars

\* A second call on a path that the first call removed has returned as a no-op.
C7_Witness ==
    \E r \in Requests :
        sd[r].pc = "returned" /\ sd[r].again /\ sd[r].filepath \in Names
                              /\ sd[r].log = <<>>

\* C18: a call of safe_delete makes at most 3 unlink attempts, makes a further
\* attempt only after the previous one failed with PermissionError, makes none
\* after an attempt succeeded, and always comes to an end.
C18_BoundedRetry ==
    /\ [](\A r \in Requests :
            /\ Len(sd[r].log) <= 3
            /\ \A k \in 1..(Len(sd[r].log) - 1) : sd[r].log[k] = "PermissionError"
            /\ sd[r].pc = "unlink" =>
                  /\ Len(sd[r].log) < 3
                  /\ \A k \in 1..Len(sd[r].log) : sd[r].log[k] = "PermissionError"
            /\ (\E k \in 1..Len(sd[r].log) : sd[r].log[k] = "ok") => sd[r].pc = "returned")
    /\ \A r \in Requests : (sd[r].pc \in {"exists", "unlink"}) ~> SDFinished(r)

\* A first attempt failed on a locked file, the second removed the file and
\* no third was made.
C18_Witness ==
    \E r \in Requests :
        /\ sd[r].pc = "returned"
        /\ sd[r].log = <<"PermissionError", "ok">>
        /\ sd[r].attempt = 1
        /\ ~PathExists(sd[r].filepath)

====
